---- MODULE Spec2Model ----
(***************************************************************************)
(* LedgerSignerAdapter (src/main/signers/ledger/adapter.ts): reconciliation *)
(* of USB attach/detach events with Ledger signer objects, the grace timer  *)
(* of a detached signer, and the store observer that re-derives addresses. *)
(*                                                                         *)
(* Ledger objects are identified by their allocation index in `ledgers`    *)
(* (object identity); timers by their allocation index in `timers`.        *)
(* Array indices of the source are 0-based, with -1 for "not found"; the   *)
(* operators findIndex, indexOf and splice keep that convention.           *)
(***************************************************************************)
EXTENDS Integers, Sequences, FiniteSets, Bags, TLC

\* ---- bounds of the model ----
MaxLedgers == 2
MaxTimers == 2
MaxEvents == 2
MaxSuspended == 1
MaxObservers == 1

\* ---- the world the adapter lives in ----
Paths == {"/dev/A", "/dev/B"}
Models == {"nanoS", "nanoX"}
NoPath == ""
Derivations == {"standard", "live"}
LiveAccountLimits == {5, 10}

VARIABLES
    isWindows,      \* IS_WINDOWS
    deviceModel,    \* physical devices: the model identifier each reports
    plugged,        \* physical devices: current HID path, NoPath when unplugged
    usbEvents,      \* attach/detach events raised by the platform, not yet handled
    store,          \* main.ledger.derivation and main.ledger.liveAccountLimit
    ledgers,        \* every Ledger object constructed so far
    closeCount,     \* number of close() calls per Ledger object
    knownSigners,   \* this.knownSigners (indices into ledgers)
    disconnections, \* this.disconnections
    timers,         \* setTimeout callbacks: the captured ledger, the timer state, and
                    \* whether an attach has popped the entry that holds the timer
    suspended,      \* async continuations awaiting ledger.open() / ledger.connect()
    observer,       \* this.observer (0: undefined, else index into observers)
    observers,      \* store observers created so far: TRUE while subscribed
    calls,          \* external calls and emits made by the last step, in order
    last            \* the last operation and its outcome

vars == <<isWindows, deviceModel, plugged, usbEvents, store, ledgers, closeCount,
          knownSigners, disconnections, timers, suspended, observer, observers,
          calls, last>>

\* ---- helpers: JavaScript arrays ----
Range(s) == {s[i] : i \in DOMAIN s}

Min(a, b) == IF a < b THEN a ELSE b

Max(a, b) == IF a > b THEN a ELSE b

\* Array.prototype.splice(index, 1): a negative index counts from the end
splice(s, index) ==
    LET len == Len(s)
        start == IF index < 0 THEN Max(len + index, 0) ELSE Min(index, len)
    IN  [k \in 1..(IF start < len THEN len - 1 ELSE len) |->
            IF k <= start THEN s[k] ELSE s[k + 1]]

\* Array.prototype.indexOf: 0-based, -1 when absent
indexOf(s, x) ==
    IF \E k \in DOMAIN s : s[k] = x
    THEN (CHOOSE k \in DOMAIN s : s[k] = x /\ \A j \in 1..(k - 1) : s[j] # x) - 1
    ELSE -1

\* this.disconnections.findIndex(d => d.devicePath === path)
findIndex(s, path) ==
    IF \E k \in DOMAIN s : s[k].devicePath = path
    THEN (CHOOSE k \in DOMAIN s :
            s[k].devicePath = path /\ \A j \in 1..(k - 1) : s[j].devicePath # path) - 1
    ELSE -1

\* the physical devices of this world
Devices == DOMAIN deviceModel

\* getLedgerDevices(): the HID paths the platform enumerates now
getLedgerDevices == {plugged[d] : d \in {e \in Devices : plugged[e] # NoPath}}

\* updateDerivation with `ledger.accountLimit || ...` written for `accountLimit || ...`
updateDerivation_KeepsLimit(ledger, derivation, accountLimit) ==
    LET liveAccountLimit ==
            IF ledger.accountLimit # 0 THEN ledger.accountLimit
            ELSE IF derivation = "live" THEN store.liveAccountLimit ELSE 0
    IN  [ledger EXCEPT !.derivation = derivation, !.accountLimit = liveAccountLimit]

\* updateDerivation without the test `derivation === Derivation.live`
updateDerivation_LimitUnderAnyScheme(ledger, derivation, accountLimit) ==
    LET liveAccountLimit == IF accountLimit # 0 THEN accountLimit ELSE store.liveAccountLimit
    IN  [ledger EXCEPT !.derivation = derivation, !.accountLimit = liveAccountLimit]

\* updateDerivation(ledger, derivation, accountLimit): the ledger's new fields
updateDerivation(ledger, derivation, accountLimit) ==
    LET liveAccountLimit ==
            IF accountLimit # 0 THEN accountLimit
            ELSE IF derivation = "live" THEN store.liveAccountLimit ELSE 0
    IN  [ledger EXCEPT !.derivation = derivation, !.accountLimit = liveAccountLimit]

\* the history record of the last operation; path is the devicePath a reload was
\* called with
Op(op, ledger, threw) ==
    [op |-> op, ledger |-> ledger, threw |-> threw, run |-> 0, derived |-> 0,
     path |-> NoPath]

\* the state after the constructor, in a world of the given devices and settings
Constructed(world, settings) ==
    /\ isWindows \in BOOLEAN
    /\ deviceModel = world
    /\ plugged = [d \in DOMAIN world |-> NoPath]
    /\ usbEvents = <<>>
    /\ store = settings
    /\ ledgers = <<>>
    /\ closeCount = <<>>
    /\ knownSigners = <<>>
    /\ disconnections = <<>>
    /\ timers = <<>>
    /\ suspended = EmptyBag
    /\ observer = 0
    /\ observers = <<>>
    /\ calls = <<>>
    /\ last = Op("constructor", 0, FALSE)

\* the settings the adapter is constructed under
DefaultSettings == [derivation |-> "live", liveAccountLimit |-> 5]

\* two devices, of the same model or of two models
Init ==
    \E m \in Models :
        Constructed([d \in {"d1", "d2"} |-> IF d = "d1" THEN "nanoS" ELSE m], DefaultSettings)

\* one device
InitConfig ==
    Constructed([d \in {"d1"} |-> "nanoS"], DefaultSettings)

\* ---- the platform: a device is plugged in or pulled out ----
DevicePlug(d, p) ==
    /\ plugged[d] = NoPath
    /\ p \notin getLedgerDevices
    /\ Len(usbEvents) < MaxEvents
    /\ plugged' = [plugged EXCEPT ![d] = p]
    /\ usbEvents' = Append(usbEvents, [type |-> "attach", id |-> deviceModel[d]])
    /\ calls' = <<>>
    /\ last' = Op("usb", 0, FALSE)
    /\ UNCHANGED <<isWindows, deviceModel, store, ledgers, closeCount, knownSigners,
                   disconnections, timers, suspended, observer, observers>>

DeviceUnplug(d) ==
    /\ plugged[d] # NoPath
    /\ Len(usbEvents) < MaxEvents
    /\ plugged' = [plugged EXCEPT ![d] = NoPath]
    /\ usbEvents' = Append(usbEvents, [type |-> "detach", id |-> deviceModel[d]])
    /\ calls' = <<>>
    /\ last' = Op("usb", 0, FALSE)
    /\ UNCHANGED <<isWindows, deviceModel, store, ledgers, closeCount, knownSigners,
                   disconnections, timers, suspended, observer, observers>>

\* ---- LedgerSignerAdapter ----

\* this.knownSigners.map(d => d.devicePath)
knownPaths == {ledgers[knownSigners[k]].devicePath : k \in DOMAIN knownSigners}

\* getAttachedDevicePath with a find() that does not look at the known paths
getAttachedDevicePath_AnyDevice(knownDevicePaths) ==
    IF getLedgerDevices = {} THEN {NoPath} ELSE getLedgerDevices

\* getAttachedDevicePath(knownDevicePaths): the values find() can return, one per
\* enumeration order of getLedgerDevices(); "" when every enumerated path is known
getAttachedDevicePath(knownDevicePaths) ==
    LET unknown == {p \in getLedgerDevices : p \notin knownDevicePaths}
    IN  IF unknown = {} THEN {NoPath} ELSE unknown

\* existingDeviceIndex with a search that stops one signer short of the end
existingDeviceIndex_OffByOne(devicePath) ==
    indexOf([k \in 1..(Len(knownSigners) - 1) |-> ledgers[knownSigners[k]].devicePath],
            devicePath)

\* this.knownSigners.findIndex(ledger => ledger.devicePath === devicePath)
existingDeviceIndex(devicePath) ==
    indexOf([k \in DOMAIN knownSigners |-> ledgers[knownSigners[k]].devicePath], devicePath)

\* getDetachedSigner without the test of the model identifier
getDetachedSigner_AnyModel(usbDevice) ==
    LET missing(k) == ledgers[knownSigners[k]].devicePath \notin getLedgerDevices
    IN  IF \E k \in DOMAIN knownSigners : missing(k)
        THEN knownSigners[CHOOSE k \in DOMAIN knownSigners :
                            missing(k) /\ \A j \in 1..(k - 1) : ~missing(j)]
        ELSE 0

\* getDetachedSigner(usbDevice): the first known signer of the event's model whose
\* path is not enumerated any more; 0 when find() returns undefined
getDetachedSigner(usbDevice) ==
    LET missing(k) == /\ ledgers[knownSigners[k]].model = usbDevice.id
                      /\ ledgers[knownSigners[k]].devicePath \notin getLedgerDevices
    IN  IF \E k \in DOMAIN knownSigners : missing(k)
        THEN knownSigners[CHOOSE k \in DOMAIN knownSigners :
                            missing(k) /\ \A j \in 1..(k - 1) : ~missing(j)]
        ELSE 0

\* clearTimeout that leaves the timer running
clearTimeout_Ignored(timeout) == timers

\* clearTimeout(timeout): an armed timer never fires; a fired one is left as it is
clearTimeout(timeout) ==
    [timers EXCEPT ![timeout].state = IF @ = "armed" THEN "cleared" ELSE @]

\* a pop() that takes the oldest element, as shift() does
pop_Shift(s) == [value |-> s[1], rest |-> Tail(s)]

\* this.disconnections.pop(): the last element, and the array it leaves
pop(s) == [value |-> s[Len(s)], rest |-> SubSeq(s, 1, Len(s) - 1)]

\* an emit('add') outside the `if (!ledger)` block
emitAdd_Always(index, ledger) == <<<<"emit add", ledger>>>>

\* this.emit('add', ledger), inside `if (!ledger)`: only for a ledger made here
emitAdd(index, ledger) == IF index < 0 THEN <<<<"emit add", ledger>>>> ELSE <<>>

\* async handleAttachedDevice(usbDevice), up to its first await
handleAttachedDevice ==
    /\ usbEvents # <<>>
    /\ Head(usbEvents).type = "attach"
    /\ usbEvents' = Tail(usbEvents)
    /\ \E found \in getAttachedDevicePath(knownPaths) :
        LET usbDevice == Head(usbEvents)
            claim == found = NoPath
        IN  IF claim /\ disconnections = <<>>
            THEN \* could not determine path for attached Ledger device
                 /\ calls' = <<>>
                 /\ last' = Op("attach", 0, FALSE)
                 /\ UNCHANGED <<ledgers, closeCount, knownSigners, disconnections,
                                timers, suspended>>
            ELSE LET pendingDisconnection == pop(disconnections).value
                     devicePath == IF claim THEN pendingDisconnection.devicePath ELSE found
                     index == existingDeviceIndex(devicePath)
                     isNew == index < 0
                     ledger == IF isNew THEN Len(ledgers) + 1 ELSE knownSigners[index + 1]
                     object == IF isNew
                               THEN [devicePath |-> devicePath, model |-> usbDevice.id,
                                     derivation |-> "", accountLimit |-> 0]
                               ELSE ledgers[ledger]
                     updated == updateDerivation(object, store.derivation, 0)
                 IN  /\ isNew => Len(ledgers) < MaxLedgers
                     /\ BagCardinality(suspended) < MaxSuspended
                     /\ disconnections' = IF claim THEN pop(disconnections).rest
                                          ELSE disconnections
                     /\ timers' = IF claim
                                  THEN [clearTimeout(pendingDisconnection.timeout)
                                          EXCEPT ![pendingDisconnection.timeout].claimed = TRUE]
                                  ELSE timers
                     /\ ledgers' = IF isNew THEN Append(ledgers, updated)
                                   ELSE [ledgers EXCEPT ![ledger] = updated]
                     /\ closeCount' = IF isNew THEN Append(closeCount, 0) ELSE closeCount
                     /\ knownSigners' = IF isNew THEN Append(knownSigners, ledger)
                                        ELSE knownSigners
                     /\ suspended' = suspended (+) SetToBag({[ledger |-> ledger, at |-> "open"]})
                     /\ calls' = emitAdd(index, ledger) \o <<<<"open", ledger>>>>
                     /\ last' = Op("attach", ledger, FALSE)
    /\ UNCHANGED <<isWindows, deviceModel, plugged, store, observer, observers>>

\* `await ledger.open()` of handleAttachedDevice, or `.then(() => ledger.connect())`
\* of reload: connect() is called when open() resolved; when it rejected the handler
\* (the chain) ends with that rejection. Nothing awaits connect() in reload.
OpenSettled(h, ok) ==
    /\ BagIn(h, suspended)
    /\ h.at \in {"open", "reload open"}
    /\ suspended' = IF ok /\ h.at = "open"
                    THEN (suspended (-) SetToBag({h})) (+) SetToBag({[h EXCEPT !.at = "connect"]})
                    ELSE suspended (-) SetToBag({h})
    /\ calls' = IF ok THEN <<<<"connect", h.ledger>>>> ELSE <<>>
    /\ last' = Op("resume", 0, FALSE)
    /\ UNCHANGED <<isWindows, deviceModel, plugged, usbEvents, store, ledgers, closeCount,
                   knownSigners, disconnections, timers, observer, observers>>

\* handleAttachedDevice ends after `await ledger.connect()`
ConnectSettled(h, ok) ==
    /\ BagIn(h, suspended)
    /\ h.at = "connect"
    /\ suspended' = suspended (-) SetToBag({h})
    /\ calls' = <<>>
    /\ last' = Op("resume", 0, FALSE)
    /\ UNCHANGED <<isWindows, deviceModel, plugged, usbEvents, store, ledgers, closeCount,
                   knownSigners, disconnections, timers, observer, observers>>

\* handleDetachedDevice(usbDevice)
handleDetachedDevice ==
    /\ usbEvents # <<>>
    /\ Head(usbEvents).type = "detach"
    /\ usbEvents' = Tail(usbEvents)
    /\ LET ledger == getDetachedSigner(Head(usbEvents))
       IN  IF ledger = 0
           THEN /\ calls' = <<>>
                /\ UNCHANGED <<disconnections, timers>>
           ELSE /\ calls' = <<<<"disconnect", ledger>>>>
                /\ IF ~isWindows
                   THEN /\ Len(timers) < MaxTimers
                        /\ timers' = Append(timers, [ledger |-> ledger, state |-> "armed",
                                                  claimed |-> FALSE])
                        /\ disconnections' =
                              Append(disconnections,
                                     [devicePath |-> ledgers[ledger].devicePath,
                                      timeout |-> Len(timers) + 1])
                   ELSE UNCHANGED <<disconnections, timers>>
    /\ last' = Op("detach", getDetachedSigner(Head(usbEvents)), FALSE)
    /\ UNCHANGED <<isWindows, deviceModel, plugged, store, ledgers, closeCount,
                   knownSigners, suspended, observer, observers>>

\* the setTimeout callback of handleDetachedDevice, 5000 ms after the detach;
\* ledger.close() raises the ledger's 'close' event, on which the listener of
\* handleAttachedDevice emits the adapter's 'remove'. Every timer has the same
\* delay, so the event loop runs the callbacks in the order the timers were set:
\* a timer fires only when no timer set before it is still armed.
TimerFire(t) ==
    /\ t \in DOMAIN timers
    /\ timers[t].state = "armed"
    /\ \A u \in 1..(t - 1) : timers[u].state # "armed"
    /\ LET ledger == timers[t].ledger
           index == findIndex(disconnections, ledgers[ledger].devicePath)
       IN  /\ disconnections' = splice(disconnections, index)
           /\ knownSigners' = splice(knownSigners, indexOf(knownSigners, ledger))
           /\ closeCount' = [closeCount EXCEPT ![ledger] = @ + 1]
           /\ calls' = <<<<"close", ledger>>, <<"emit remove", ledger>>>>
           /\ last' = Op("timeout", ledger, FALSE)
    /\ timers' = [timers EXCEPT ![t].state = "fired"]
    /\ UNCHANGED <<isWindows, deviceModel, plugged, usbEvents, store, ledgers,
                   suspended, observer, observers>>

\* ---- the store and its observer ----

\* the settings change to another derivation or live account limit
StoreSet(derivation, liveAccountLimit) ==
    /\ store # [derivation |-> derivation, liveAccountLimit |-> liveAccountLimit]
    /\ store' = [derivation |-> derivation, liveAccountLimit |-> liveAccountLimit]
    /\ calls' = <<>>
    /\ last' = Op("store", 0, FALSE)
    /\ UNCHANGED <<isWindows, deviceModel, plugged, usbEvents, ledgers, closeCount,
                   knownSigners, disconnections, timers, suspended, observer, observers>>

\* the test of the observer callback: does this ledger need a new derivation?
derivationChanged(ledger, ledgerDerivation, liveAccountLimit) ==
    \/ ledger.derivation # ledgerDerivation
    \/ (ledger.derivation = "live" /\ ledger.accountLimit # liveAccountLimit)

\* the callback given to store.observer() in open(), run by the store
ObserverNotify(o) ==
    /\ o \in DOMAIN observers
    /\ observers[o]
    /\ LET ledgerDerivation == store.derivation
           liveAccountLimit == store.liveAccountLimit
           changed(i) == derivationChanged(ledgers[i], ledgerDerivation, liveAccountLimit)
           derived == SelectSeq(knownSigners, changed)
       IN  /\ ledgers' = [i \in DOMAIN ledgers |->
                            IF i \in Range(knownSigners) /\ changed(i)
                            THEN updateDerivation(ledgers[i], ledgerDerivation, liveAccountLimit)
                            ELSE ledgers[i]]
           /\ calls' = [k \in DOMAIN derived |-> <<"deriveAddresses", derived[k]>>]
           /\ last' = [op |-> "notify", ledger |-> 0, threw |-> FALSE,
                       run |-> IF last.op = "notify" THEN 2 ELSE 1,
                       derived |-> IF last.op = "notify" THEN last.derived ELSE Len(derived),
                       path |-> NoPath]
    /\ UNCHANGED <<isWindows, deviceModel, plugged, usbEvents, store, closeCount,
                   knownSigners, disconnections, timers, suspended, observer, observers>>

\* open(): subscribes a new observer and keeps it in this.observer
open ==
    /\ Len(observers) < MaxObservers
    /\ observers' = Append(observers, TRUE)
    /\ observer' = Len(observers) + 1
    /\ calls' = <<>>
    /\ last' = Op("open", 0, FALSE)
    /\ UNCHANGED <<isWindows, deviceModel, plugged, usbEvents, store, ledgers, closeCount,
                   knownSigners, disconnections, timers, suspended>>

\* close(): this.observer.remove() throws a TypeError while this.observer is undefined
close ==
    /\ observers' = IF observer = 0 THEN observers ELSE [observers EXCEPT ![observer] = FALSE]
    /\ calls' = <<>>
    /\ last' = Op("close", 0, observer = 0)
    /\ UNCHANGED <<isWindows, deviceModel, plugged, usbEvents, store, ledgers, closeCount,
                   knownSigners, disconnections, timers, suspended, observer>>

\* a reload that calls disconnect(), open() and connect() without chaining them
reload_Unchained(signer) ==
    /\ LET index == indexOf([k \in DOMAIN knownSigners |->
                                 ledgers[knownSigners[k]].devicePath], signer.devicePath)
       IN  IF index >= 0
           THEN /\ calls' = <<<<"disconnect", knownSigners[index + 1]>>,
                              <<"open", knownSigners[index + 1]>>,
                              <<"connect", knownSigners[index + 1]>>>>
                /\ last' = [Op("reload", knownSigners[index + 1], FALSE)
                              EXCEPT !.path = signer.devicePath]
           ELSE /\ calls' = <<>>
                /\ last' = [Op("reload", 0, FALSE) EXCEPT !.path = signer.devicePath]
    /\ UNCHANGED <<isWindows, deviceModel, plugged, usbEvents, store, ledgers, closeCount,
                   knownSigners, disconnections, timers, suspended, observer, observers>>

\* reload(signer): disconnect() now, open() and connect() chained behind it
reload(signer) ==
    /\ LET index == indexOf([k \in DOMAIN knownSigners |->
                                 ledgers[knownSigners[k]].devicePath], signer.devicePath)
       IN  IF index >= 0
           THEN /\ BagCardinality(suspended) < MaxSuspended
                /\ suspended' = suspended (+) SetToBag({[ledger |-> knownSigners[index + 1],
                                                         at |-> "reload disconnect"]})
                /\ calls' = <<<<"disconnect", knownSigners[index + 1]>>>>
                /\ last' = [Op("reload", knownSigners[index + 1], FALSE)
                              EXCEPT !.path = signer.devicePath]
           ELSE /\ suspended' = suspended
                /\ calls' = <<>>
                /\ last' = [Op("reload", 0, FALSE) EXCEPT !.path = signer.devicePath]
    /\ UNCHANGED <<isWindows, deviceModel, plugged, usbEvents, store, ledgers, closeCount,
                   knownSigners, disconnections, timers, observer, observers>>

\* `.then(() => ledger.open())` of reload
DisconnectSettled(h, ok) ==
    /\ BagIn(h, suspended)
    /\ h.at = "reload disconnect"
    /\ suspended' = IF ok
                    THEN (suspended (-) SetToBag({h})) (+) SetToBag({[h EXCEPT !.at = "reload open"]})
                    ELSE suspended (-) SetToBag({h})
    /\ calls' = IF ok THEN <<<<"open", h.ledger>>>> ELSE <<>>
    /\ last' = Op("resume", 0, FALSE)
    /\ UNCHANGED <<isWindows, deviceModel, plugged, usbEvents, store, ledgers, closeCount,
                   knownSigners, disconnections, timers, observer, observers>>

\* the USB side: plugging, the two handlers, their continuations and the grace timers
NextUsb ==
    \/ \E d \in Devices, p \in Paths : DevicePlug(d, p)
    \/ \E d \in Devices : DeviceUnplug(d)
    \/ handleAttachedDevice
    \/ \E h \in BagToSet(suspended), ok \in BOOLEAN : OpenSettled(h, ok)
    \/ \E h \in BagToSet(suspended), ok \in BOOLEAN : ConnectSettled(h, ok)
    \/ handleDetachedDevice
    \/ \E t \in 1..MaxTimers : TimerFire(t)

Next ==
    \/ NextUsb
    \/ \E p \in Paths : reload([devicePath |-> p])
    \/ \E h \in BagToSet(suspended), ok \in BOOLEAN : DisconnectSettled(h, ok)

\* the USB side together with the settings, their observer, and open() and close()
NextConfig ==
    \/ NextUsb
    \/ \E derivation \in Derivations, liveAccountLimit \in LiveAccountLimits :
          StoreSet(derivation, liveAccountLimit)
    \/ \E o \in 1..MaxObservers : ObserverNotify(o)
    \/ open
    \/ close

Spec == Init /\ [][Next]_vars

SpecConfig == InitConfig /\ [][NextConfig]_vars

\* ---- properties ----

\* C1: the registry never holds two handles with the same devicePath.
C1_UniquePaths ==
    \A j, k \in DOMAIN knownSigners :
        j # k => ledgers[knownSigners[j]].devicePath # ledgers[knownSigners[k]].devicePath

\* C1: two handles are known, one of them reused by an attach that claimed its
\* pending disconnection, while an attach handler is suspended.
C1_Witness ==
    /\ Len(knownSigners) = 2
    /\ \E t \in DOMAIN timers : timers[t].state = "cleared"
    /\ suspended # EmptyBag

\* the handle that held the only pending disconnection when the device came back
C2_Reattach ==
    /\ ~isWindows
    /\ Cardinality(Devices) = 1
    /\ Len(knownSigners) = 1
    /\ Len(disconnections) = 1
    /\ timers[disconnections[1].timeout].state = "armed"
    /\ timers[disconnections[1].timeout].ledger = knownSigners[1]
    /\ Len(usbEvents) = 1
    /\ usbEvents[1].type = "attach"

\* C2 (as claimed): a device that comes back while the grace timer of its handle is
\* armed is served by that handle, under its old path or under a new one; the handle
\* takes the new path and no second handle is made.
C2_SameHandleOnReattach ==
    [][(C2_Reattach /\ last'.op = "attach") =>
          /\ last'.ledger = knownSigners[1]
          /\ knownSigners' = knownSigners
          /\ \A d \in Devices : ledgers'[knownSigners[1]].devicePath = plugged[d]]_vars

\* C3 (as claimed): once every device is unplugged, every USB event is handled and no
\* grace timer is armed any more, the registry is empty: the handle of every device
\* that went away and did not come back has been removed.
C3_DetachedEventuallyRemoved ==
    (/\ ~isWindows
     /\ getLedgerDevices = {}
     /\ usbEvents = <<>>
     /\ \A t \in DOMAIN timers : timers[t].state # "armed")
    => knownSigners = <<>>

\* C4 (as claimed): close() is invoked at most once on a handle, and exactly once on a
\* handle that a grace-timer expiry took out of the registry.
C4_CloseOnce ==
    \A i \in DOMAIN ledgers :
        /\ closeCount[i] <= 1
        /\ (~isWindows /\ i \notin Range(knownSigners)) => closeCount[i] = 1

\* C5: a notification that directly follows a notification, under the same settings,
\* invokes deriveAddresses() on no handle and changes no field of any handle.
C5_SecondNotifyIsNoOp ==
    [][(last.op = "notify" /\ last'.op = "notify") =>
          /\ ledgers' = ledgers
          /\ \A k \in DOMAIN calls' : calls'[k][1] # "deriveAddresses"]_vars

\* C5: a second notification in a row has run, the first one having re-derived a handle.
C5_Witness ==
    /\ last.op = "notify"
    /\ last.run = 2
    /\ last.derived > 0
    /\ knownSigners # <<>>

\* the pair the settings stand for: the account limit counts under "live" only
EffectivePair ==
    [derivation |-> store.derivation,
     accountLimit |-> IF store.derivation = "live" THEN store.liveAccountLimit ELSE 0]

Pair(ledger) == [derivation |-> ledger.derivation, accountLimit |-> ledger.accountLimit]

\* C6 (as claimed): a notification invokes deriveAddresses() once on every registry
\* handle whose pair differs from the effective pair and on no other handle, and
\* leaves every registry handle with the effective pair.
C6_NotifyDerivesExactlyChanged ==
    [][last'.op = "notify" =>
          \A k \in DOMAIN knownSigners :
              LET i == knownSigners[k]
                  n == Cardinality({c \in DOMAIN calls' : calls'[c] = <<"deriveAddresses", i>>})
              IN  /\ n = IF Pair(ledgers[i]) # EffectivePair THEN 1 ELSE 0
                  /\ Pair(ledgers'[i]) = EffectivePair]_vars

\* C7 (as claimed): every registry handle under a scheme other than "live" has
\* accountLimit 0.
C7_LimitZeroUnlessLive ==
    \A k \in DOMAIN knownSigners :
        ledgers[knownSigners[k]].derivation # "live" => ledgers[knownSigners[k]].accountLimit = 0

\* an attach event is next, every enumerated path is in the registry and no
\* disconnection is pending
C8_Unresolvable ==
    /\ usbEvents # <<>>
    /\ Head(usbEvents).type = "attach"
    /\ {p \in getLedgerDevices : p \notin knownPaths} = {}
    /\ disconnections = <<>>

\* C8: an attach event that finds no new path and no pending disconnection creates no
\* handle, emits nothing, calls neither open() nor connect(), leaves the registry and
\* the pending disconnections as they are, and returns without an error.
C8_UnresolvedAttachIsNoOp ==
    [][(C8_Unresolvable /\ last'.op = "attach") =>
          /\ ledgers' = ledgers
          /\ closeCount' = closeCount
          /\ knownSigners' = knownSigners
          /\ disconnections' = disconnections
          /\ timers' = timers
          /\ suspended' = suspended
          /\ calls' = <<>>
          /\ last'.ledger = 0
          /\ ~last'.threw]_vars

\* C8: an attach event was dropped while the registry held a handle whose path the
\* platform enumerates.
C8_Witness ==
    /\ last.op = "attach"
    /\ last.ledger = 0
    /\ knownSigners # <<>>
    /\ knownPaths \cap getLedgerDevices # {}

\* C9 (as claimed): on Windows a detach event that resolves to a handle removes it from
\* the registry and closes it within the handler, and records no pending disconnection.
C9_WindowsDetachRemoves ==
    (isWindows /\ last.op = "detach" /\ last.ledger # 0) =>
        /\ last.ledger \notin Range(knownSigners)
        /\ \E k \in DOMAIN calls : calls[k] = <<"close", last.ledger>>
        /\ disconnections = <<>>

\* C10 (as claimed): close() throws nothing, also when open() was never called, and
\* leaves the observer of open() unsubscribed.
C10_CloseIsSafe ==
    last.op = "close" =>
        /\ ~last.threw
        /\ observer # 0 => ~observers[observer]

\* C11 (as claimed): the pending disconnections hold at most one entry per devicePath.
C11_OnePendingPerPath ==
    \A j, k \in DOMAIN disconnections :
        j # k => disconnections[j].devicePath # disconnections[k].devicePath

\* C12: claiming and expiry exclude each other. No timer has both fired and had its
\* entry claimed by an attach (neither a claim followed by the expiry nor an expiry
\* followed by a claim), and every entry still pending holds a timer that is armed,
\* so an entry whose timer has fired is not there to be claimed.
C12_ClaimExcludesExpiry ==
    /\ \A t \in DOMAIN timers : ~(timers[t].claimed /\ timers[t].state = "fired")
    /\ \A k \in DOMAIN disconnections :
          /\ timers[disconnections[k].timeout].state = "armed"
          /\ ~timers[disconnections[k].timeout].claimed

\* C12: of two pending disconnections one was claimed by an attach and the timer of
\* the other has fired.
C12_Witness ==
    /\ \E t \in DOMAIN timers : timers[t].claimed
    /\ \E t \in DOMAIN timers : timers[t].state = "fired"

\* an attach event is about to be handled while every enumerated path is known and
\* disconnections are pending: the handler has to claim one of them
C13_MustClaim ==
    /\ usbEvents # <<>>
    /\ Head(usbEvents).type = "attach"
    /\ getLedgerDevices \subseteq knownPaths
    /\ disconnections # <<>>

\* C13: such an attach claims the most recently recorded entry: the ledger of pending
\* disconnections loses its last entry and nothing else, the timer of that entry is
\* cancelled and no other timer changes, and the handle served has the devicePath of
\* that entry.
C13_ClaimIsLifo ==
    [][(C13_MustClaim /\ last'.op = "attach") =>
          LET n == Len(disconnections)
              entry == disconnections[n]
          IN  /\ disconnections' = SubSeq(disconnections, 1, n - 1)
              /\ timers'[entry.timeout].state = "cleared"
              /\ \A t \in DOMAIN timers : t # entry.timeout => timers'[t] = timers[t]
              /\ last'.ledger # 0
              /\ ledgers'[last'.ledger].devicePath = entry.devicePath]_vars

\* C13: an attach has claimed the later of two pending disconnections; the earlier
\* one is still pending and its timer armed.
C13_Witness ==
    /\ last.op = "attach"
    /\ Len(timers) = 2
    /\ timers[2].claimed
    /\ timers[1].state = "armed"
    /\ Len(disconnections) = 1
    /\ disconnections[1].timeout = 1

\* a detach event is about to be handled and no known handle has both the model
\* identifier of the event and a devicePath that is no longer enumerated
C14_Unresolvable ==
    /\ usbEvents # <<>>
    /\ Head(usbEvents).type = "detach"
    /\ \A k \in DOMAIN knownSigners :
          \/ ledgers[knownSigners[k]].model # Head(usbEvents).id
          \/ \E d \in Devices : plugged[d] = ledgers[knownSigners[k]].devicePath

\* C14: handling such a detach event changes nothing: the registry, the pending
\* disconnections, the timers and every handle stay as they were, and no
\* disconnect(), close() or notification is made.
C14_UnresolvedDetachIsNoOp ==
    [][(C14_Unresolvable /\ last'.op = "detach") =>
          /\ UNCHANGED <<knownSigners, disconnections, timers, ledgers, closeCount,
                         suspended>>
          /\ calls' = <<>>]_vars

\* C14: a detach event was dropped although handles are known: none of them had the
\* model of the event and a path that is gone.
C14_Witness ==
    /\ last.op = "detach"
    /\ last.ledger = 0
    /\ calls = <<>>
    /\ knownSigners # <<>>

\* the positions of the calls of the last step that are an emit of this notification
C15_Emits(cs, name) == {k \in DOMAIN cs : cs[k][1] = name}

\* C15: add is emitted exactly when an attach creates a handle: a step that makes a
\* Ledger object is an attach, emits add once, for that object, and appends it to
\* the registry; an attach that makes none leaves the registry as it is, serves a
\* handle that is in it, and emits neither add nor remove; no other step emits add.
C15_AddIffCreated ==
    [][IF Len(ledgers') # Len(ledgers)
       THEN /\ last'.op = "attach"
            /\ ledgers' = Append(ledgers, ledgers'[Len(ledgers')])
            /\ Cardinality(C15_Emits(calls', "emit add")) = 1
            /\ \A k \in C15_Emits(calls', "emit add") : calls'[k][2] = Len(ledgers')
            /\ knownSigners' = Append(knownSigners, Len(ledgers'))
       ELSE /\ C15_Emits(calls', "emit add") = {}
            /\ last'.op = "attach" =>
                  /\ knownSigners' = knownSigners
                  /\ C15_Emits(calls', "emit remove") = {}
                  /\ last'.ledger # 0 => last'.ledger \in Range(knownSigners)]_vars

\* C15: an attach has just reused a handle of the registry, after two handles were
\* created.
C15_Witness ==
    /\ last.op = "attach"
    /\ last.ledger # 0
    /\ calls = <<<<"open", last.ledger>>>>
    /\ Len(ledgers) = 2

\* C16: an attach that resolves to a handle, new or reused, leaves that handle with
\* the current global scheme and with the stored live account limit under "live" and
\* 0 otherwise, and open() is invoked on that handle as the last call of that step,
\* with these values in place.
C16_AttachAppliesDerivation ==
    [][(last'.op = "attach" /\ last'.ledger # 0) =>
          /\ ledgers'[last'.ledger].derivation = store.derivation
          /\ ledgers'[last'.ledger].accountLimit =
                IF store.derivation = "live" THEN store.liveAccountLimit ELSE 0
          /\ calls' # <<>>
          /\ calls'[Len(calls')] = <<"open", last'.ledger>>
          /\ \A k \in 1..(Len(calls') - 1) : calls'[k][1] # "open"]_vars

\* C16: an attach has just reused a handle after the settings were changed to the
\* other scheme, and open() is being invoked on it.
C16_Witness ==
    /\ last.op = "attach"
    /\ last.ledger # 0
    /\ calls = <<<<"open", last.ledger>>>>
    /\ store.derivation = "standard"
    /\ Pair(ledgers[last.ledger]) = [derivation |-> "standard", accountLimit |-> 0]

\* the registry handles whose devicePath is the given one
C17_HandlesAt(path) ==
    {knownSigners[k] : k \in {j \in DOMAIN knownSigners :
                                  ledgers[knownSigners[j]].devicePath = path}}

\* the cycles of reload that leave the given stage in this step
C17_Leaving(stage) ==
    {h \in BagToSet(suspended) : h.at = stage /\ CopiesIn(h, suspended') < CopiesIn(h, suspended)}

\* C17: reload(signer) invokes disconnect() on the registry handle with the signer's
\* path and nothing else in that step; open() is invoked on that handle only in the
\* step in which its disconnect() has completed, and connect() only in the step in
\* which its open() has completed; with no registry handle at that path reload
\* invokes nothing and starts nothing; and neither reload nor a step of its cycle
\* changes the registry or the pending disconnections.
C17_ReloadCycle ==
    [][/\ last'.op = "reload" =>
            /\ UNCHANGED <<knownSigners, disconnections, ledgers, timers>>
            /\ IF C17_HandlesAt(last'.path) = {}
               THEN calls' = <<>> /\ suspended' = suspended
               ELSE \E l \in C17_HandlesAt(last'.path) :
                       /\ calls' = <<<<"disconnect", l>>>>
                       /\ suspended' = suspended (+)
                              SetToBag({[ledger |-> l, at |-> "reload disconnect"]})
       /\ last'.op = "resume" =>
            /\ UNCHANGED <<knownSigners, disconnections>>
            /\ \A h \in C17_Leaving("reload disconnect") :
                  \/ calls' = <<>> /\ suspended' = suspended (-) SetToBag({h})
                  \/ /\ calls' = <<<<"open", h.ledger>>>>
                     /\ suspended' = (suspended (-) SetToBag({h})) (+)
                            SetToBag({[ledger |-> h.ledger, at |-> "reload open"]})
            /\ \A h \in C17_Leaving("reload open") :
                  /\ calls' \in {<<>>, <<<<"connect", h.ledger>>>>}
                  /\ suspended' = suspended (-) SetToBag({h})
            /\ (\E k \in DOMAIN calls' : calls'[k][1] = "open") =>
                  C17_Leaving("reload disconnect") # {}]_vars

\* C17: the cycle of a reload has come to its end: connect() is being invoked on the
\* handle after its disconnect() and its open() have completed.
C17_Witness ==
    /\ last.op = "resume"
    /\ suspended = EmptyBag
    /\ \E l \in Range(knownSigners) : calls = <<<<"connect", l>>>>

\* a sequence without its elements that satisfy the test
C18_Without(s, Test(_)) == SelectSeq(s, LAMBDA x : ~Test(x))

\* C18 (as claimed): the expiry of a grace timer takes out of the registry the handle
\* whose detach set the timer and no other handle, and takes out of the pending
\* disconnections at most one entry, with the devicePath of that handle; entries for
\* other paths stay as they were. This also when the handle or its entry is gone
\* by the time the timer fires.
C18_ExpiryRemovesOnlyItsOwn ==
    [][last'.op = "timeout" =>
          LET ledger == last'.ledger
              own(d) == d.devicePath = ledgers[ledger].devicePath
          IN  /\ knownSigners' = C18_Without(knownSigners, LAMBDA l : l = ledger)
              /\ C18_Without(disconnections', own) = C18_Without(disconnections, own)
              /\ Len(disconnections') >= Len(disconnections) - 1]_vars

\* C19 (as claimed): every pending disconnection has the devicePath of a handle that
\* is in the registry, so an attach that claims one finds that handle and makes no
\* new one.
C19_PendingPathIsKnown ==
    \A k \in DOMAIN disconnections : disconnections[k].devicePath \in knownPaths

\* the handle was taken out of the registry and closed
C20_Removed(ledger) ==
    /\ ledger \in DOMAIN closeCount
    /\ closeCount[ledger] > 0
    /\ ledger \notin Range(knownSigners)

\* C20 (as claimed): no step invokes open() or connect() on a handle that was removed
\* from the registry and closed before that step, however the continuation of an
\* attach handler is interleaved with a detach and the expiry of its grace timer.
C20_NoCallAfterClose ==
    [][\A k \in DOMAIN calls' :
          calls'[k][1] \in {"open", "connect"} => ~C20_Removed(calls'[k][2])]_vars
====
